---- MODULE Spec2Model ----
(***************************************************************************)
(* Model of KycService (src/src/kyc/kyc.service.ts): the document          *)
(* verification pipeline docVerify, the record lookup findDoc and the age  *)
(* gate isUserAdult.                                                       *)
(*                                                                         *)
(* JavaScript runs each synchronous segment of an async function without   *)
(* interleaving; an invocation can be overtaken by another one only at an  *)
(* await.  Every action below is one such segment, or one answer of an     *)
(* external collaborator (the verification provider, the store).           *)
(*                                                                         *)
(* The upload layer gives every request files of its own (kyc.module.ts,   *)
(* diskStorage with a fresh name per file) and nothing else removes them,  *)
(* so a file is missing only after its own invocation has unlinked it.     *)
(* What can fail is a read (a file readFileSync cannot return), the        *)
(* provider's answer and the store's create.                               *)
(***************************************************************************)
EXTENDS Integers, Sequences, FiniteSets

\* ------------------------------------------------------------------ bounds
NumInvocations == 2
NumHandles == 2
MaxAge == 20
YearSpan == 1

\* ------------------------------------------------------- program constants
AgeThreshold == 19
AdultThreshold == 18

VerificationFailed == "Verification failed"
NotEligible == "User Not Eligible, Age restricted !!!"
TwoFilesRequired == "Two files are required: front and back of the document."
ImageFile == "/user-image.jpg"
EnvUrl == "ENV"

\* ---------------------------------------------------------------- domains
Invocations == 1..NumInvocations
Handles == 1..NumHandles
MinAge == AgeThreshold - 1
Ages == MinAge..MaxAge
Sides == {"front", "back"}
Paths == Invocations \X Sides
\* what the upload layer stored at a path: an image, an empty file, or a
\* file too large for readFileSync(path, 'base64') to return as one string
FileKinds == {"img", "empty", "huge"}
Absent == "absent"

Undefined == <<>>
Some(v) == <<v>>

VARIABLES
  disk,        \* temporary storage: path -> kind of the file, or Absent
  pc,          \* position of each docVerify invocation
  hasBack,     \* whether documentBack was supplied to the invocation
  nFiles,      \* files.length: the files the upload layer stored for the request
  request,     \* options.data of the request in flight to the provider
  response,    \* the provider's answer the invocation received
  age,         \* const age of the invocation
  userHash,    \* const userHash of the invocation
  insertReply, \* the store's answer to prisma.kyc.create
  outcome,     \* what the caller of docVerify observed
  trace,       \* the effects each invocation had, in order
  store,       \* the kyc table
  creator,     \* for each row of store, the invocation whose create made it
  fpc,         \* position of the findDoc call
  fArg,        \* data.hash of the findDoc call
  fResult,     \* what the caller of findDoc observed
  adultIn,     \* input of isUserAdult: dateOfBirth, the clock, the time zone
  adultOut     \* result of isUserAdult

pipelineVars == <<disk, pc, hasBack, nFiles, request, response, age, userHash,
                  insertReply, outcome, trace, store, creator>>
findVars == <<fpc, fArg, fResult>>
adultVars == <<adultIn, adultOut>>
vars == <<pipelineVars, findVars, adultVars>>

\* ------------------------------------------------------------ file system
Document(i) == <<i, "front">>
DocumentBack(i) == <<i, "back">>

\* fs.readFileSync(path, 'base64'): throws when the file is missing or cannot
\* be returned as a string, else returns the encoded text
ReadFileSync(d, p) ==
  IF d[p] = Absent \/ d[p] = "huge"
    THEN [threw |-> TRUE, text |-> ""]
    ELSE [threw |-> FALSE, text |-> IF d[p] = "empty" THEN "" ELSE "base64"]

\* fs.unlinkSync(path): throws when the file is missing, else removes it
UnlinkSync(d, p) ==
  IF d[p] = Absent
    THEN [threw |-> TRUE, disk |-> d]
    ELSE [threw |-> FALSE, disk |-> [d EXCEPT ![p] = Absent]]

\* ------------------------------------------------------------- outcomes
NoOutcome == [kind |-> "none", age |-> Undefined, hash |-> 0, image |-> <<>>, text |-> ""]
UserImage == <<EnvUrl, ImageFile>>
\* mutant: the payload reports the handle of the row saved last, not its own
Payload_LastSaved(a, h) ==
  [kind |-> "payload", age |-> a,
   hash |-> IF Len(store) > 0 THEN store[Len(store)].hash ELSE h,
   image |-> UserImage, text |-> ""]
Payload(a, h) ==
  [kind |-> "payload", age |-> a, hash |-> h, image |-> UserImage, text |-> ""]
Message ==
  [kind |-> "message", age |-> Undefined, hash |-> 0, image |-> <<>>, text |-> NotEligible]
Thrown(msg) ==
  [kind |-> "error", age |-> Undefined, hash |-> 0, image |-> <<>>, text |-> msg]

Ev(name) == [e |-> name, id |-> 0]
EvRec(name, id) == [e |-> name, id |-> id]

\* ------------------------------------------------ verification provider
\* One age claim of the provider's answer: an object with or without "value".
Claim(v) == [value |-> v]
\* Response bodies: res = response.data, by the shape of res.data.age.
BodyNoData == [data |-> Undefined]
BodyNoAge == [data |-> Some([age |-> Undefined])]
BodyAges(l) == [data |-> Some([age |-> Some(l)])]
AgeLists ==
  {<<>>, <<Claim(Undefined)>>}
    \cup {<<Claim(Some(a))>> : a \in Ages}
    \cup {<<Claim(Some(MinAge)), Claim(Some(MaxAge))>>}
Bodies == {BodyNoData, BodyNoAge} \cup {BodyAges(l) : l \in AgeLists}

NoResponse == [got |-> "none", status |-> 0, body |-> BodyNoData]
NetworkError == [got |-> "error", status |-> 0, body |-> BodyNoData]
Http(status, body) == [got |-> "http", status |-> status, body |-> body]
Responses ==
  {NetworkError, Http(500, BodyNoData)} \cup {Http(200, b) : b \in Bodies}

\* axios.request(options): rejects on a network error and on a status outside
\* 2xx (axios' default validateStatus), else resolves with the response
AxiosRequest(resp) ==
  IF resp.got = "error" THEN [threw |-> TRUE, error |-> "NetworkError", data |-> BodyNoData]
  ELSE IF resp.status < 200 \/ resp.status >= 300
    THEN [threw |-> TRUE, error |-> "StatusError", data |-> BodyNoData]
  ELSE [threw |-> FALSE, error |-> "", data |-> resp.body]

\* res.data.age[0].value: a TypeError when res.data, res.data.age or
\* res.data.age[0] is undefined; undefined when the first claim has no value
ExtractAge(res) ==
  IF res.data = Undefined THEN [threw |-> TRUE, value |-> Undefined]
  ELSE IF res.data[1].age = Undefined THEN [threw |-> TRUE, value |-> Undefined]
  ELSE IF Len(res.data[1].age[1]) = 0 THEN [threw |-> TRUE, value |-> Undefined]
  ELSE [threw |-> FALSE, value |-> res.data[1].age[1][1].value]

\* mutant: the gate's threshold of 18 in place of the pipeline's
Eligible_AdultThreshold(a) == a # Undefined /\ a[1] >= AdultThreshold
\* mutant: > in place of >=
Eligible_Strict(a) == a # Undefined /\ a[1] > AgeThreshold
\* age >= 19 (undefined >= 19 is false in JavaScript)
Eligible(a) == a # Undefined /\ a[1] >= AgeThreshold

\* data = {document}, plus documentBack when its text is not the empty string
BuildData(front, back) ==
  [document |-> front, documentBack |-> IF back # "" THEN Some(back) ELSE Undefined]

\* mutant: the catch block rethrows what it caught
CatchError_Rethrow(error) == error
\* catch (error) { console.error(error); throw new Error('Verification failed') }
CatchError(error) == VerificationFailed

\* ------------------------------------------------------------------ store
\* mutant: an upsert on hash, which rewrites the row that has the handle
PrismaCreate_Upsert(s, a, h) ==
  IF \E k \in DOMAIN s : s[k].hash = h
    THEN [k \in DOMAIN s |-> IF s[k].hash = h THEN [s[k] EXCEPT !.age = a] ELSE s[k]]
    ELSE Append(s, [id |-> Len(s) + 1, age |-> a, hash |-> h])
\* prisma.kyc.create({data: {age, hash}}): a new row with a generated id
PrismaCreate(s, a, h) == Append(s, [id |-> Len(s) + 1, age |-> a, hash |-> h])

\* mutant: the where clause is lost
FindMany_Unfiltered(s, h) == s
\* prisma.kyc.findMany({where: {hash}}): the rows with that hash, in order
FindMany(s, h) == SelectSeq(s, LAMBDA r : r.hash = h)

NoReply == [status |-> "none", id |-> 0]

\* ----------------------------------------------------------------- finally
\* finally { fs.unlinkSync(document.path);
\*           if (documentBack) fs.unlinkSync(documentBack.path) }
\* An unlinkSync that throws ends the block and replaces the outcome.
Finally(d, i, back) ==
  LET u1 == UnlinkSync(d, Document(i))
      u2 == UnlinkSync(u1.disk, DocumentBack(i))
  IN  IF u1.threw
        THEN [threw |-> TRUE, disk |-> u1.disk, events |-> <<Ev("unlinkFailed")>>]
      ELSE IF ~back
        THEN [threw |-> FALSE, disk |-> u1.disk, events |-> <<Ev("unlinkFront")>>]
      ELSE IF u2.threw
        THEN [threw |-> TRUE, disk |-> u2.disk,
              events |-> <<Ev("unlinkFront"), Ev("unlinkFailed")>>]
      ELSE [threw |-> FALSE, disk |-> u2.disk,
            events |-> <<Ev("unlinkFront"), Ev("unlinkBack")>>]

\* Leaving the try statement with `result` (a return value or the error of
\* the catch block): the finally block runs, then the caller observes.
Complete(i, result, events) ==
  LET fin == Finally(disk, i, hasBack[i])
      seen == IF fin.threw THEN Thrown("UnlinkError") ELSE result
  IN  /\ disk' = fin.disk
      /\ outcome' = [outcome EXCEPT ![i] = seen]
      /\ trace' = [trace EXCEPT ![i] =
                     @ \o events \o fin.events
                       \o <<Ev(IF seen.kind = "error" THEN "throw" ELSE "return")>>]
      /\ pc' = [pc EXCEPT ![i] = "done"]

\* ------------------------------------------------------------ upload layer
\* FilesInterceptor('files', 2, diskStorage): the files of one request, two
\* at most, are stored under fresh names before the handler is called.
Upload(i) ==
  /\ pc[i] = "idle"
  /\ \E front \in FileKinds \cup {Absent}, back \in FileKinds \cup {Absent} :
       /\ front = Absent => back = Absent
       /\ disk' = [disk EXCEPT ![Document(i)] = front, ![DocumentBack(i)] = back]
       /\ hasBack' = [hasBack EXCEPT ![i] = (back # Absent)]
       /\ nFiles' = [nFiles EXCEPT ![i] =
                       IF front = Absent THEN 0 ELSE IF back = Absent THEN 1 ELSE 2]
  /\ pc' = [pc EXCEPT ![i] = "uploaded"]
  /\ UNCHANGED <<request, response, age, userHash, insertReply, outcome, trace,
                 store, creator, findVars, adultVars>>

\* Something other than the request's own invocation removes one of its files
\* from the uploads directory while the request is being served.
RemoveUpload(i, side) ==
  /\ pc[i] \in {"uploaded", "awaitVendor", "awaitInsert", "insertReplied"}
  /\ disk[<<i, side>>] # Absent
  /\ disk' = [disk EXCEPT ![<<i, side>>] = Absent]
  /\ UNCHANGED <<pc, hasBack, nFiles, request, response, age, userHash,
                 insertReply, outcome, trace, store, creator, findVars, adultVars>>

\* --------------------------------------------------------------- docVerify
\* From the call to the first await: both reads, the payload, axios.request.
\* The reads stand before the try statement: an error of theirs leaves the
\* function as it is, and the finally block does not run.
DocVerifyCall(i) ==
  /\ pc[i] = "uploaded"
  /\ nFiles[i] >= 1
  /\ LET r1 == ReadFileSync(disk, Document(i))
         r2 == IF hasBack[i] THEN ReadFileSync(disk, DocumentBack(i))
                             ELSE [threw |-> FALSE, text |-> ""]
         reads == IF hasBack[i] THEN <<Ev("readFront"), Ev("readBack")>>
                                ELSE <<Ev("readFront")>>
     IN  IF r1.threw
           THEN /\ outcome' = [outcome EXCEPT ![i] = Thrown("ReadError")]
                /\ trace' = [trace EXCEPT ![i] = @ \o <<Ev("readFailed"), Ev("throw")>>]
                /\ pc' = [pc EXCEPT ![i] = "done"]
                /\ UNCHANGED request
         ELSE IF r2.threw
           THEN /\ outcome' = [outcome EXCEPT ![i] = Thrown("ReadError")]
                /\ trace' = [trace EXCEPT ![i] =
                               @ \o <<Ev("readFront"), Ev("readFailed"), Ev("throw")>>]
                /\ pc' = [pc EXCEPT ![i] = "done"]
                /\ UNCHANGED request
         ELSE /\ request' = [request EXCEPT ![i] = Some(BuildData(r1.text, r2.text))]
              /\ trace' = [trace EXCEPT ![i] = @ \o reads \o <<Ev("request")>>]
              /\ pc' = [pc EXCEPT ![i] = "awaitVendor"]
              /\ UNCHANGED outcome
  /\ UNCHANGED <<disk, hasBack, nFiles, response, age, userHash, insertReply,
                 store, creator, findVars, adultVars>>

\* KycController.docVerify: the handler of POST kyc/doc-verify throws unless
\* the request carries exactly two files, else calls the service with them.
ControllerDocVerify(i) ==
  /\ pc[i] = "uploaded"
  /\ IF nFiles[i] # 2
       THEN /\ outcome' = [outcome EXCEPT ![i] = Thrown(TwoFilesRequired)]
            /\ trace' = [trace EXCEPT ![i] = @ \o <<Ev("reject")>>]
            /\ pc' = [pc EXCEPT ![i] = "rejected"]
            /\ UNCHANGED <<disk, hasBack, nFiles, request, response, age, userHash,
                           insertReply, store, creator, findVars, adultVars>>
       ELSE DocVerifyCall(i)

\* The provider's answer arrives and the function runs on to its next await
\* (the create) or to its end.
VendorAnswer(i) ==
  /\ pc[i] = "awaitVendor"
  /\ \E resp \in Responses :
       LET ax == AxiosRequest(resp)
           ex == ExtractAge(ax.data)
       IN  /\ response' = [response EXCEPT ![i] = resp]
           /\ request' = [request EXCEPT ![i] = Undefined]
           /\ IF ax.threw
                THEN /\ Complete(i, Thrown(CatchError(ax.error)), <<Ev("requestFailed")>>)
                     /\ UNCHANGED <<age, userHash>>
              ELSE IF ex.threw
                THEN /\ Complete(i, Thrown(CatchError("TypeError")), <<Ev("response")>>)
                     /\ UNCHANGED <<age, userHash>>
              ELSE IF Eligible(ex.value)
                THEN /\ age' = [age EXCEPT ![i] = ex.value]
                     /\ \E h \in Handles : userHash' = [userHash EXCEPT ![i] = h]
                     /\ trace' = [trace EXCEPT ![i] =
                                    @ \o <<Ev("response"), Ev("randomBytes"), Ev("create")>>]
                     /\ pc' = [pc EXCEPT ![i] = "awaitInsert"]
                     /\ UNCHANGED <<disk, outcome>>
              ELSE /\ age' = [age EXCEPT ![i] = ex.value]
                   /\ Complete(i, Message, <<Ev("response")>>)
                   /\ UNCHANGED userHash
  /\ UNCHANGED <<hasBack, nFiles, insertReply, store, creator, findVars, adultVars>>

\* The store executes the create: the row is inserted, or the create fails.
StoreInsert(i) ==
  /\ pc[i] = "awaitInsert"
  /\ \E ok \in BOOLEAN :
       IF ok
         THEN /\ store' = PrismaCreate(store, age[i][1], userHash[i])
              /\ creator' = Append(creator, i)
              /\ insertReply' = [insertReply EXCEPT ![i] =
                                   [status |-> "ok", id |-> Len(store) + 1]]
         ELSE /\ insertReply' = [insertReply EXCEPT ![i] =
                                   [status |-> "failed", id |-> 0]]
              /\ UNCHANGED <<store, creator>>
  /\ pc' = [pc EXCEPT ![i] = "insertReplied"]
  /\ UNCHANGED <<disk, hasBack, nFiles, request, response, age, userHash, outcome,
                 trace, findVars, adultVars>>

\* mutant: a create that failed is issued again
InsertAnswer_Retry(i) ==
  /\ pc[i] = "insertReplied"
  /\ IF insertReply[i].status = "ok"
       THEN Complete(i, Payload(age[i], userHash[i]),
                     <<EvRec("created", insertReply[i].id)>>)
       ELSE /\ trace' = [trace EXCEPT ![i] = @ \o <<Ev("createFailed"), Ev("create")>>]
            /\ pc' = [pc EXCEPT ![i] = "awaitInsert"]
            /\ UNCHANGED <<disk, outcome>>
  /\ UNCHANGED <<hasBack, nFiles, request, response, age, userHash, insertReply,
                 store, creator, findVars, adultVars>>
\* The store's answer arrives: console.log(saved_rec) and the return of the
\* payload, or the catch block.
InsertAnswer(i) ==
  /\ pc[i] = "insertReplied"
  /\ IF insertReply[i].status = "ok"
       THEN Complete(i, Payload(age[i], userHash[i]),
                     <<EvRec("created", insertReply[i].id)>>)
       ELSE Complete(i, Thrown(CatchError("StoreError")), <<Ev("createFailed")>>)
  /\ UNCHANGED <<hasBack, nFiles, request, response, age, userHash, insertReply,
                 store, creator, findVars, adultVars>>

\* ----------------------------------------------------------------- findDoc
NoResult == [kind |-> "none", entries |-> <<>>, user_image |-> <<>>]
\* {...dbData, "user_image": ...}: the rows under their indices, and the URL
Spread(rows) == [kind |-> "returned", entries |-> rows, user_image |-> UserImage]

FindDocCall(h) ==
  /\ fpc = "idle"
  /\ fpc' = "query"
  /\ fArg' = h
  /\ fResult' = NoResult
  /\ UNCHANGED <<pipelineVars, adultVars>>

FindDocAnswer ==
  /\ fpc = "query"
  /\ fResult' = Spread(FindMany(store, fArg))
  /\ fpc' = "idle"
  /\ UNCHANGED <<fArg, pipelineVars, adultVars>>

\* ------------------------------------------------------------- isUserAdult
\* Calendar dates are <<year, month, day>>, months 1..12.
IsLeap(y) == (y % 4 = 0 /\ y % 100 # 0) \/ y % 400 = 0
DaysIn(y, m) ==
  IF m = 2 THEN (IF IsLeap(y) THEN 29 ELSE 28)
  ELSE IF m \in {4, 6, 9, 11} THEN 30 ELSE 31
ValidDate(t) == t[2] \in 1..12 /\ t[3] \in 1..DaysIn(t[1], t[2])
PrevDay(t) ==
  IF t[3] > 1 THEN <<t[1], t[2], t[3] - 1>>
  ELSE IF t[2] > 1 THEN <<t[1], t[2] - 1, DaysIn(t[1], t[2] - 1)>>
  ELSE <<t[1] - 1, 12, 31>>

\* new Date(dateOfBirth), read with the local getters.  A date-only string
\* ("2004-03-01") is midnight UTC, so in a zone behind UTC its local fields
\* are those of the day before; in a zone at or ahead of UTC (up to +14h) they
\* are the day written.  A date-time string without an offset
\* ("2004-03-01T00:00") is local time: its local fields are the day written.
NewDate(str, tz) ==
  IF str.form = "date" /\ tz < 0 THEN PrevDay(str.day) ELSE str.day

GetFullYear(t) == t[1]
GetMonth(t) == t[2] - 1
GetDate(t) == t[3]

\* isUserAdult(dateOfBirth), with today = new Date() in the local zone
IsUserAdult(dateOfBirth, today, tz) ==
  LET birthDate == NewDate(dateOfBirth, tz)
      years == GetFullYear(today) - GetFullYear(birthDate)
      monthDiff == GetMonth(today) - GetMonth(birthDate)
  IN  IF monthDiff < 0 \/ (monthDiff = 0 /\ GetDate(today) < GetDate(birthDate))
        THEN years - 1 >= AdultThreshold
        ELSE years >= AdultThreshold

\* Inputs of the age gate: birth dates around month ends and a leap day,
\* reference dates eighteen years later, three time zones.
BirthYears == 2004..(2004 + YearSpan)
GateMonths == {1, 2, 3, 12}
GateDays == {1, 2, 28, 29, 30, 31}
TzOffsets == {-5, 0, 2}
BirthDates == {t \in BirthYears \X GateMonths \X GateDays : ValidDate(t)}
Todays ==
  {t \in {y + AdultThreshold : y \in BirthYears} \X GateMonths \X GateDays :
     ValidDate(t)}
AdultInputs ==
  [birth : BirthDates, form : {"date", "datetime"}, today : Todays, tz : TzOffsets]

\* POST kyc/check-age
CheckAge ==
  /\ adultOut = "none"
  /\ adultOut' =
       IF IsUserAdult([form |-> adultIn.form, day |-> adultIn.birth],
                      adultIn.today, adultIn.tz)
         THEN "true" ELSE "false"
  /\ UNCHANGED <<adultIn, pipelineVars, findVars>>

\* ----------------------------------------------------------- specification
NoAdultIn == [birth |-> <<0, 0, 0>>, form |-> "none", today |-> <<0, 0, 0>>, tz |-> 0]

Init ==
  /\ disk = [p \in Paths |-> Absent]
  /\ pc = [i \in Invocations |-> "idle"]
  /\ hasBack = [i \in Invocations |-> FALSE]
  /\ nFiles = [i \in Invocations |-> 0]
  /\ request = [i \in Invocations |-> Undefined]
  /\ response = [i \in Invocations |-> NoResponse]
  /\ age = [i \in Invocations |-> Undefined]
  /\ userHash = [i \in Invocations |-> 0]
  /\ insertReply = [i \in Invocations |-> NoReply]
  /\ outcome = [i \in Invocations |-> NoOutcome]
  /\ trace = [i \in Invocations |-> <<>>]
  /\ store = <<>>
  /\ creator = <<>>
  /\ fpc = "idle"
  /\ fArg = 0
  /\ fResult = NoResult
  /\ adultIn = NoAdultIn
  /\ adultOut = "none"

\* docVerify alone
NextPipeline ==
  \/ \E i \in Invocations : Upload(i)
  \/ \E i \in Invocations : DocVerifyCall(i)
  \/ \E i \in Invocations : ControllerDocVerify(i)
  \/ \E i \in Invocations : VendorAnswer(i)
  \/ \E i \in Invocations : StoreInsert(i)
  \/ \E i \in Invocations : InsertAnswer(i)

Next ==
  \/ \E i \in Invocations : Upload(i)
  \/ \E i \in Invocations : DocVerifyCall(i)
  \/ \E i \in Invocations : ControllerDocVerify(i)
  \/ \E i \in Invocations : VendorAnswer(i)
  \/ \E i \in Invocations : StoreInsert(i)
  \/ \E i \in Invocations : InsertAnswer(i)
  \/ \E h \in Handles : FindDocCall(h)
  \/ FindDocAnswer

Spec == Init /\ [][Next]_vars

\* docVerify where the provider and the store answer every call made to them
\* and the continuation of an answered await is run.
SpecFair ==
  /\ Init
  /\ [][NextPipeline]_vars
  /\ \A i \in Invocations :
       /\ WF_vars(VendorAnswer(i))
       /\ WF_vars(StoreInsert(i))
       /\ WF_vars(InsertAnswer(i))

\* docVerify where uploaded files can disappear under a request being served.
NextCleanup ==
  \/ NextPipeline
  \/ \E i \in Invocations, side \in Sides : RemoveUpload(i, side)

SpecCleanup == Init /\ [][NextCleanup]_vars

\* The age gate alone, on every input of AdultInputs.
InitAdult ==
  /\ disk = [p \in Paths |-> Absent]
  /\ pc = [i \in Invocations |-> "idle"]
  /\ hasBack = [i \in Invocations |-> FALSE]
  /\ nFiles = [i \in Invocations |-> 0]
  /\ request = [i \in Invocations |-> Undefined]
  /\ response = [i \in Invocations |-> NoResponse]
  /\ age = [i \in Invocations |-> Undefined]
  /\ userHash = [i \in Invocations |-> 0]
  /\ insertReply = [i \in Invocations |-> NoReply]
  /\ outcome = [i \in Invocations |-> NoOutcome]
  /\ trace = [i \in Invocations |-> <<>>]
  /\ store = <<>>
  /\ creator = <<>>
  /\ fpc = "idle"
  /\ fArg = 0
  /\ fResult = NoResult
  /\ adultIn \in AdultInputs
  /\ adultOut = "none"

NextAdult == CheckAge

SpecAdult == InitAdult /\ [][NextAdult]_vars

\* ================================================================= claims
Done(i) == pc[i] = "done"
Count(i, name) == Cardinality({k \in DOMAIN trace[i] : trace[i][k].e = name})
RowsOf(i) == {k \in DOMAIN store : creator[k] = i}
GenericError(i) == outcome[i].kind = "error" /\ outcome[i].text = "Verification failed"
Answered2xx(i) ==
  response[i].got = "http" /\ response[i].status >= 200 /\ response[i].status < 300
\* the provider's answer to i gives no data.age[0]
NoFirstClaim(i) ==
  LET b == response[i].body
  IN  \/ b.data = <<>>
      \/ b.data[1].age = <<>>
      \/ Len(b.data[1].age[1]) = 0
\* the provider's answer to i gives no data.age[0].value
OmitsAge(i) ==
  NoFirstClaim(i) \/ response[i].body.data[1].age[1][1].value = <<>>
\* the integer data.age[0].value of the provider's answer to i
CarriedAge(i) == response[i].body.data[1].age[1][1].value[1]
CarriesAge(i) == Answered2xx(i) /\ ~OmitsAge(i)
\* no invocation is between its call and its end
Quiescent == \A i \in Invocations : pc[i] \in {"idle", "uploaded", "rejected", "done"}

\* C1: when a docVerify invocation has ended, whatever its outcome, each file
\* handed to it (the front image and, when supplied, the back image) has been
\* deleted exactly once and is absent from temporary storage.
C1_FilesDeletedOnEveryOutcome ==
  \A i \in Invocations :
    Done(i) =>
      /\ disk[<<i, "front">>] = "absent"
      /\ Count(i, "unlinkFront") = 1
      /\ hasBack[i] => (disk[<<i, "back">>] = "absent" /\ Count(i, "unlinkBack") = 1)

\* C2 (as claimed): once no invocation is in progress, the number of stored
\* records equals the number of invocations whose extracted age was >= 19,
\* and no record has an age below 19.
C2_RecordIffAgeAtLeast19 ==
  Quiescent =>
    /\ Len(store) =
         Cardinality({i \in Invocations : age[i] # <<>> /\ age[i][1] >= 19})
    /\ \A k \in DOMAIN store : store[k].age >= 19

\* C2 (amended): once no invocation is in progress, an invocation has made
\* exactly one record when its extracted age was >= 19 and its insert did not
\* fail, and none otherwise; the store holds these records and no others, and
\* no record has an age below 19.
C2_RecordIffEligibleAndInserted ==
  Quiescent =>
    /\ \A i \in Invocations :
         Cardinality(RowsOf(i)) =
           IF age[i] # <<>> /\ age[i][1] >= 19 /\ insertReply[i].status # "failed"
             THEN 1 ELSE 0
    /\ Len(store) =
         Cardinality({i \in Invocations :
                        age[i] # <<>> /\ age[i][1] >= 19
                          /\ insertReply[i].status # "failed"})
    /\ \A k \in DOMAIN store : store[k].age >= 19

C2_Witness ==
  /\ Quiescent
  /\ \E i, j \in Invocations :
       /\ Done(i) /\ age[i] = <<19>> /\ insertReply[i].status = "failed"
       /\ Done(j) /\ RowsOf(j) # {}
  /\ Len(store) = 1

\* C3: when the provider answered with an integer age a and the insert did
\* not fail, the invocation returns the success payload with a and the handle
\* it generated after the answer exactly when a >= 19, and returns the plain
\* ineligibility message exactly when a < 19.
C3_OutcomeByAge ==
  \A i \in Invocations :
    (Done(i) /\ CarriesAge(i) /\ insertReply[i].status # "failed") =>
      IF CarriedAge(i) >= 19
        THEN /\ outcome[i].kind = "payload"
             /\ outcome[i].age = <<CarriedAge(i)>>
             /\ outcome[i].hash = userHash[i]
             /\ userHash[i] \in Handles
             /\ Count(i, "randomBytes") = 1
        ELSE /\ outcome[i].kind = "message"
             /\ outcome[i].text = "User Not Eligible, Age restricted !!!"

C3_Witness ==
  \E i, j \in Invocations :
    /\ Done(i) /\ CarriesAge(i) /\ CarriedAge(i) = 19 /\ outcome[i].kind = "payload"
    /\ Done(j) /\ CarriesAge(j) /\ CarriedAge(j) = 18 /\ outcome[j].kind = "message"

\* C4: an invocation that failed in steps 1-4 (a file could not be read, the
\* request met a network error or a status outside 2xx, or the body gives no
\* data.age[0]) ends with the generic 'Verification failed' error.
C4_FailuresRaiseGenericError ==
  \A i \in Invocations :
    (/\ Done(i)
     /\ \/ Count(i, "readFailed") > 0
        \/ response[i].got = "error"
        \/ (response[i].got = "http" /\ ~Answered2xx(i))
        \/ (Answered2xx(i) /\ NoFirstClaim(i)))
      => GenericError(i)

\* C5: an invocation whose provider answer omits data.age[0].value (no data
\* object, no age list, an empty age list, a first element without a value)
\* ends with the generic verification-failed error and creates no record.
C5_MissingAgeIsFailure ==
  \A i \in Invocations :
    (Done(i) /\ Answered2xx(i) /\ OmitsAge(i)) =>
      (GenericError(i) /\ RowsOf(i) = {})

\* C6: the step in which findDoc gets the store's answer returns, without an
\* error, exactly the stored records whose handle is the requested one, each
\* once and in the store's order, together with the image URL; with no match
\* the result holds no record.
C6_FindDocReturnsMatches ==
  [][(fpc = "query" /\ fpc' = "idle") =>
       LET rows == fResult'.entries
           hits == {k \in DOMAIN store : store[k].hash = fArg}
       IN  /\ fResult'.kind = "returned"
           /\ fResult'.user_image = <<"ENV", "/user-image.jpg">>
           /\ Len(rows) = Cardinality(hits)
           /\ \A k \in hits : \E n \in DOMAIN rows : rows[n] = store[k]
           /\ \A n \in DOMAIN rows : \E k \in hits : rows[n] = store[k]
           /\ \A m, n \in DOMAIN rows : m < n => rows[m].id < rows[n].id]_vars

C6_Witness ==
  /\ fResult.kind = "returned"
  /\ Len(fResult.entries) = 1
  /\ Len(store) = 2
  /\ \E k \in DOMAIN store : store[k].hash # fArg

\* C7 (as claimed): two invocations that both returned a success payload have
\* two distinct handles and two separate stored records, each holding the age
\* and handle of its own invocation.
C7_DistinctHandlesAndRecords ==
  \A i, j \in Invocations :
    (i # j /\ outcome[i].kind = "payload" /\ outcome[j].kind = "payload") =>
      /\ outcome[i].hash # outcome[j].hash
      /\ \E ki, kj \in DOMAIN store :
           /\ ki # kj
           /\ creator[ki] = i /\ store[ki].age = CarriedAge(i)
           /\ store[ki].hash = outcome[i].hash
           /\ creator[kj] = j /\ store[kj].age = CarriedAge(j)
           /\ store[kj].hash = outcome[j].hash

\* C7 (amended): two invocations that both returned a success payload have
\* made two separate stored records (distinct rows with distinct ids), one
\* each, and each record holds the age the provider gave its own invocation
\* and the handle its own invocation generated and returned.  The handles are
\* two independent random draws: nothing makes them differ.
C7_SeparateOwnRecords ==
  \A i, j \in Invocations :
    (i # j /\ outcome[i].kind = "payload" /\ outcome[j].kind = "payload") =>
      /\ Cardinality(RowsOf(i)) = 1 /\ Cardinality(RowsOf(j)) = 1
      /\ \E ki, kj \in DOMAIN store :
           /\ ki # kj /\ store[ki].id # store[kj].id
           /\ creator[ki] = i /\ store[ki].age = CarriedAge(i)
           /\ store[ki].hash = outcome[i].hash /\ outcome[i].hash = userHash[i]
           /\ outcome[i].age = <<CarriedAge(i)>>
           /\ creator[kj] = j /\ store[kj].age = CarriedAge(j)
           /\ store[kj].hash = outcome[j].hash /\ outcome[j].hash = userHash[j]
           /\ outcome[j].age = <<CarriedAge(j)>>

\* both succeeded, the one named second inserted first, and the draws collided
C7_Witness ==
  /\ Len(store) = 2
  /\ creator[1] = 2 /\ creator[2] = 1
  /\ outcome[1].kind = "payload" /\ outcome[2].kind = "payload"
  /\ outcome[1].age # outcome[2].age
  /\ outcome[1].hash = outcome[2].hash

\* C9: an invocation whose provider answer gave an age >= 19 and whose insert
\* failed ends with the generic 'Verification failed' error, has made no
\* record, and has deleted each uploaded file once.
C9_InsertFailureIsGenericError ==
  \A i \in Invocations :
    (Done(i) /\ insertReply[i].status = "failed") =>
      /\ CarriesAge(i) /\ CarriedAge(i) >= 19
      /\ outcome[i].kind = "error"
      /\ outcome[i].text = "Verification failed"
      /\ RowsOf(i) = {}
      /\ disk[<<i, "front">>] = "absent" /\ Count(i, "unlinkFront") = 1
      /\ hasBack[i] => (disk[<<i, "back">>] = "absent" /\ Count(i, "unlinkBack") = 1)

C9_Witness ==
  \E i \in Invocations :
    /\ Done(i) /\ insertReply[i].status = "failed" /\ hasBack[i]
    /\ outcome[i].text = "Verification failed"

\* C10: every step leaves the stored records as they are or adds one record
\* at the end; a step of findDoc leaves the store unchanged.
C10_StoreOnlyGrows ==
  [][/\ Len(store') >= Len(store)
     /\ Len(store') <= Len(store) + 1
     /\ \A k \in DOMAIN store : store'[k] = store[k]
     /\ (fpc' # fpc \/ fResult' # fResult \/ fArg' # fArg) => store' = store]_vars

C10_Witness ==
  /\ Len(store) = 2
  /\ store[1].hash = store[2].hash
  /\ fResult.kind = "returned" /\ Len(fResult.entries) = 2

\* C8: isUserAdult returns true exactly when the calendar age of the birth
\* date given, as of the current date, is at least 18: the whole years between
\* them, less one when the current month and day come before the birth month
\* and day.
C8_AdultIffCalendarAge18 ==
  adultOut # "none" =>
    LET d == adultIn.birth
        n == adultIn.today
        before == n[2] < d[2] \/ (n[2] = d[2] /\ n[3] < d[3])
        calendarAge == n[1] - d[1] - (IF before THEN 1 ELSE 0)
    IN  (adultOut = "true") <=> (calendarAge >= 18)

\* C11: an invocation that got past reading its files has issued exactly one
\* request to the provider and at most one create, whatever its outcome: a
\* failed request or a failed create is not issued again, a create is issued
\* only on an answer whose age is >= 19, and at most one row is the
\* invocation's.
C11_OneRequestAtMostOneInsert ==
  \A i \in Invocations :
    (pc[i] \in {"awaitVendor", "awaitInsert", "insertReplied"}
       \/ (Done(i) /\ Count(i, "readFailed") = 0)) =>
      /\ Count(i, "request") = 1
      /\ Count(i, "requestFailed") + Count(i, "response") <= 1
      /\ Count(i, "create") <= 1
      /\ Count(i, "created") + Count(i, "createFailed") <= Count(i, "create")
      /\ Cardinality(RowsOf(i)) <= Count(i, "create")
      /\ Count(i, "create") = 1 => (CarriesAge(i) /\ CarriedAge(i) >= 19)
      /\ (Done(i) /\ CarriesAge(i) /\ CarriedAge(i) < 19) => Count(i, "create") = 0

\* one invocation ended on a failed request, the other on a failed create
C11_Witness ==
  \E i, j \in Invocations :
    /\ Done(i) /\ Count(i, "requestFailed") = 1 /\ Count(i, "request") = 1
    /\ Done(j) /\ Count(j, "createFailed") = 1 /\ Count(j, "create") = 1

\* positions in the effects of invocation i
At(i, names) == {k \in DOMAIN trace[i] : trace[i][k].e \in names}
\* every effect of `later` comes after some effect of `earlier`
OnlyAfter(i, later, earlier) ==
  \A k \in At(i, later) : \E m \in At(i, earlier) : m < k

\* C12: within one invocation the request is issued only after every
\* supplied file has been read, the create only after the provider's answer
\* has been received, the files are deleted only after the create has
\* completed or failed or the request has failed (or the answer has been
\* received, when no create is issued), and the caller observes the outcome
\* only after each supplied file has been deleted.
C12_StepsInOrder ==
  \A i \in Invocations :
    /\ OnlyAfter(i, {"request"}, {"readFront"})
    /\ hasBack[i] => OnlyAfter(i, {"request"}, {"readBack"})
    /\ OnlyAfter(i, {"create"}, {"response"})
    /\ OnlyAfter(i, {"unlinkFront", "unlinkBack"},
                 IF At(i, {"create"}) # {}
                   THEN {"created", "createFailed"}
                   ELSE {"response", "requestFailed"})
    /\ OnlyAfter(i, {"return", "throw"}, {"unlinkFront"})
    /\ hasBack[i] => OnlyAfter(i, {"return", "throw"}, {"unlinkBack"})

\* the service's docVerify has been called for request i
Started(i) == pc[i] \in {"awaitVendor", "awaitInsert", "insertReplied", "done"}

\* C13: where the provider and the store answer every call, every started
\* invocation eventually ends, and ends in one of three outcomes: the success
\* payload, the ineligibility message, or the generic failure.
C13_EndsInOneOfThree ==
  \A i \in Invocations :
    Started(i) ~>
      (/\ Done(i)
       /\ \/ outcome[i].kind = "payload"
          \/ outcome[i].kind = "message"
          \/ (outcome[i].kind = "error" /\ outcome[i].text = "Verification failed"))

\* C14: whenever an invocation has returned the success payload with age a
\* and handle h, the store holds a record (a, h) made by that invocation; and
\* whenever an invocation has ended by throwing, an error of the cleanup step
\* included, no record in the store is that invocation's.
C14_CallerAndStoreAgree ==
  \A i \in Invocations :
    Done(i) =>
      /\ outcome[i].kind = "payload" =>
           \E k \in RowsOf(i) :
             <<store[k].age>> = outcome[i].age /\ store[k].hash = outcome[i].hash
      /\ outcome[i].kind = "error" => RowsOf(i) = {}

\* C15, for the requests the controller rejects (for the requests the service
\* handles, the deletion of the files is the statement of C1): once the
\* controller has rejected a doc-verify request for not carrying exactly two
\* files, every file the upload layer stored for it has been deleted (nothing
\* deletes it afterwards), and the request has called neither the provider
\* nor the store.
C15_RejectedUploadsDeleted ==
  \A i \in Invocations :
    pc[i] = "rejected" =>
      /\ disk[<<i, "front">>] = "absent" /\ disk[<<i, "back">>] = "absent"
      /\ Count(i, "request") = 0 /\ Count(i, "create") = 0
      /\ response[i].got = "none" /\ RowsOf(i) = {}

====
